---- MODULE Spec2Model ----
(***************************************************************************)
(* The Bash tool of AgentCLI (src/lib/bash_tool.py, src/bash_tool.py):     *)
(* allowlist gate, command-name extraction, shell execution with the       *)
(* sentinel-and-pwd trailer, and the session's working directory.          *)
(*                                                                         *)
(* A string is a sequence of lexical units.  A unit is a separator         *)
(* character, a whitespace character, or a word made of ordinary           *)
(* characters only ("ls", "/home", "__END__"); no word is a concatenation  *)
(* of other units, so a sequence of units denotes exactly one text and     *)
(* the regular expressions of the code, which only distinguish character   *)
(* classes, act on units as they act on characters.                        *)
(***************************************************************************)
EXTENDS Integers, Sequences, FiniteSets, TLC

\* the longest command line, in units, given to the extractor on its own
MaxLen == 4

\* the longest session explored, in operations
MaxCalls == 3

(***************************************************************************)
(* Text helpers: str.strip, str.split, re.split, re.sub                    *)
(***************************************************************************)
WS == {" ", "\n"}

\* the unit that stands for the backtick character
BACKTICK == "BACKTICK"

RECURSIVE LStrip(_)
LStrip(s) == IF s # <<>> /\ Head(s) \in WS THEN LStrip(Tail(s)) ELSE s

RECURSIVE RStrip(_)
RStrip(s) ==
    IF s # <<>> /\ s[Len(s)] \in WS THEN RStrip(SubSeq(s, 1, Len(s) - 1)) ELSE s

Strip(s) == RStrip(LStrip(s))

Drop(s, n) == SubSeq(s, n + 1, Len(s))

\* number of leading units of s that belong to the class cls
RECURSIVE Lead(_, _)
Lead(s, cls) == IF s # <<>> /\ Head(s) \in cls THEN 1 + Lead(Tail(s), cls) ELSE 0

\* number of leading units of s that are not whitespace (\S+)
RECURSIVE LeadWord(_)
LeadWord(s) == IF s # <<>> /\ Head(s) \notin WS THEN 1 + LeadWord(Tail(s)) ELSE 0

\* part.split()[0] if part.split() else ''
FirstToken(s) == LET t == LStrip(s) IN SubSeq(t, 1, LeadWord(t))

\* a split that does not know the separator &
RECURSIVE ReSplit_NoAmpersand(_, _)
ReSplit_NoAmpersand(s, cur) ==
    IF s = <<>> THEN <<cur>>
    ELSE IF Head(s) \in {"|", ";", BACKTICK}
         THEN <<cur>> \o ReSplit_NoAmpersand(Tail(s), <<>>)
    ELSE IF Head(s) = "$" /\ Len(s) >= 2 /\ s[2] = "("
         THEN <<cur>> \o ReSplit_NoAmpersand(Drop(s, 2), <<>>)
    ELSE ReSplit_NoAmpersand(Tail(s), Append(cur, Head(s)))

\* re.split(separators, cmd) with the separators | ; & $( and backtick (the
\* alternatives || and && of the pattern never match: the single character
\* matches first); cur is the fragment being read
RECURSIVE ReSplit(_, _)
ReSplit(s, cur) ==
    IF s = <<>> THEN <<cur>>
    ELSE IF Head(s) \in {"|", ";", "&", BACKTICK}
         THEN <<cur>> \o ReSplit(Tail(s), <<>>)
    ELSE IF Head(s) = "$" /\ Len(s) >= 2 /\ s[2] = "("
         THEN <<cur>> \o ReSplit(Drop(s, 2), <<>>)
    ELSE ReSplit(Tail(s), Append(cur, Head(s)))

\* re.sub(r'>+\s*\S+', '', part), leftmost matches, greedy with backtracking
RECURSIVE ReSubRedirect(_)
ReSubRedirect(s) ==
    IF s = <<>> THEN <<>>
    ELSE IF Head(s) # ">" THEN <<Head(s)>> \o ReSubRedirect(Tail(s))
    ELSE LET g     == Lead(s, {">"})
             rest  == Drop(s, g)
             rest2 == Drop(rest, Lead(rest, WS))
             n     == LeadWord(rest2)
         IN  IF n > 0 THEN ReSubRedirect(Drop(rest2, n))
             ELSE IF g >= 2 THEN ReSubRedirect(rest)
             ELSE <<">">> \o ReSubRedirect(Tail(s))

(***************************************************************************)
(* Bash._extract_commands                                                  *)
(***************************************************************************)
\* the body of the loop over the fragments: the names one fragment gives
FragmentNames(part0) ==
    LET part == Strip(part0) IN
    IF part = <<>> THEN <<>>
    ELSE LET part2 == Strip(ReSubRedirect(part)) IN
         IF part2 = <<>> THEN <<>>
         ELSE LET cmd_name == FirstToken(part2) IN
              IF cmd_name = <<>> THEN <<>> ELSE <<cmd_name>>

RECURSIVE CollectNames(_)
CollectNames(parts) ==
    IF parts = <<>> THEN <<>>
    ELSE FragmentNames(Head(parts)) \o CollectNames(Tail(parts))

_extract_commands(cmd) == CollectNames(ReSplit(cmd, <<>>))

(***************************************************************************)
(* The environment of subprocess.run: a file system with two directories   *)
(* and /bin/bash evaluating one command text.  The shell is modelled as    *)
(* far as the tool depends on it: lines, the operators ; | & && ||,        *)
(* output redirection, and the commands cd, pwd, echo, ls, exit and rm.    *)
(***************************************************************************)
HomeDir == <<"/home">>
SubDir  == <<"/home/sub">>
Dirs    == {HomeDir, SubDir}
NoDir   == <<>>

\* the directory a path names when looked up from the directory dir
Resolve(dir, path) ==
    IF path \in Dirs THEN path
    ELSE IF dir = HomeDir /\ path = <<"sub">> THEN SubDir
    ELSE NoDir

\* what ls prints in a directory
Listing(dir) == IF dir = HomeDir THEN <<"sub", "\n">> ELSE <<>>

SyntaxError == <<"bash:syntax-error", "\n">>
CdError     == <<"bash:cd:no-such-directory", "\n">>
RmError     == <<"rm:cannot-remove", "\n">>
NotFound    == <<"bash:command-not-found", "\n">>

\* the text as lines
RECURSIVE SplitLines(_, _)
SplitLines(s, cur) ==
    IF s = <<>> THEN <<cur>>
    ELSE IF Head(s) = "\n" THEN <<cur>> \o SplitLines(Tail(s), <<>>)
    ELSE SplitLines(Tail(s), Append(cur, Head(s)))

\* one line as simple commands, each with the operator that follows it;
\* an & right after > belongs to a redirection (2>&1)
RECURSIVE LexLine(_, _)
LexLine(s, cur) ==
    IF s = <<>> THEN <<[cmd |-> cur, op |-> ""]>>
    ELSE IF Head(s) = "&" /\ cur # <<>> /\ cur[Len(cur)] = ">"
         THEN LexLine(Tail(s), Append(cur, "&"))
    ELSE IF Head(s) \in {"|", "&"} /\ Len(s) >= 2 /\ s[2] = Head(s)
         THEN <<[cmd |-> cur, op |-> IF Head(s) = "|" THEN "||" ELSE "&&"]>>
              \o LexLine(Drop(s, 2), <<>>)
    ELSE IF Head(s) \in {"|", "&", ";"}
         THEN <<[cmd |-> cur, op |-> Head(s)]>> \o LexLine(Tail(s), <<>>)
    ELSE LexLine(Tail(s), Append(cur, Head(s)))

\* a line ending in | && || continues on the next line
OpenEnded(line) ==
    LET items == LexLine(line, <<>>) IN
    /\ Len(items) >= 2
    /\ Strip(items[Len(items)].cmd) = <<>>
    /\ items[Len(items) - 1].op \in {"|", "&&", "||"}

RECURSIVE JoinCont(_)
JoinCont(lines) ==
    IF Len(lines) <= 1 THEN lines
    ELSE IF OpenEnded(lines[1])
         THEN JoinCont(<<lines[1] \o lines[2]>> \o Drop(lines, 2))
    ELSE <<lines[1]>> \o JoinCont(Tail(lines))

\* number of leading units of s that are neither whitespace nor >
RECURSIVE LeadPlain(_)
LeadPlain(s) ==
    IF s # <<>> /\ Head(s) \notin WS \cup {">"} THEN 1 + LeadPlain(Tail(s)) ELSE 0

\* the length of a redirection target at the head of s: an optional & and a word
TargetLen(s) ==
    LET a == IF s # <<>> /\ Head(s) = "&" THEN 1 ELSE 0
        n == LeadPlain(Drop(s, a))
    IN  IF n = 0 THEN 0 ELSE a + n

\* every > or >> of a simple command has a target
RECURSIVE RedirOK(_)
RedirOK(s) ==
    IF s = <<>> THEN TRUE
    ELSE IF Head(s) # ">" THEN RedirOK(Tail(s))
    ELSE LET g    == Lead(s, {">"})
             rest == Drop(Drop(s, g), Lead(Drop(s, g), {" "}))
         IN  g <= 2 /\ TargetLen(rest) > 0 /\ RedirOK(Drop(rest, TargetLen(rest)))

\* the targets of the redirections of a simple command, in order
RECURSIVE RedirTargets(_)
RedirTargets(s) ==
    IF s = <<>> THEN <<>>
    ELSE IF Head(s) # ">" THEN RedirTargets(Tail(s))
    ELSE LET g    == Lead(s, {">"})
             rest == Drop(Drop(s, g), Lead(Drop(s, g), {" "}))
         IN  <<SubSeq(rest, 1, TargetLen(rest))>>
             \o RedirTargets(Drop(rest, TargetLen(rest)))

\* a simple command without its redirections
RECURSIVE DropRedirs(_)
DropRedirs(s) ==
    IF s = <<>> THEN <<>>
    ELSE IF Head(s) # ">" THEN <<Head(s)>> \o DropRedirs(Tail(s))
    ELSE LET g    == Lead(s, {">"})
             rest == Drop(Drop(s, g), Lead(Drop(s, g), {" "}))
         IN  <<" ">> \o DropRedirs(Drop(rest, TargetLen(rest)))

\* the words of a simple command
RECURSIVE Words(_)
Words(s) ==
    LET t == LStrip(s) IN
    IF t = <<>> THEN <<>>
    ELSE <<SubSeq(t, 1, LeadWord(t))>> \o Words(Drop(t, LeadWord(t)))

RECURSIVE JoinWords(_)
JoinWords(ws) ==
    IF ws = <<>> THEN <<>>
    ELSE IF Len(ws) = 1 THEN ws[1]
    ELSE ws[1] \o <<" ">> \o JoinWords(Tail(ws))

(***************************************************************************)
(* The state of a running shell: its directory, what it has written, the   *)
(* program names it has run, whether it is still reading commands, and     *)
(* the exit status of the last command.                                    *)
(***************************************************************************)
ShellStart(dir) ==
    [dir |-> dir, out |-> <<>>, err |-> <<>>, ran |-> <<>>,
     alive |-> TRUE, status |-> 0]

\* one simple command; sub: it runs in a subshell (pipeline member or
\* background job); piped: its standard output feeds the next command
RunSimple(c, st, sub, piped) ==
    LET words   == Words(DropRedirs(c))
        targets == RedirTargets(c)
        sink    == IF targets # <<>>
                   THEN IF targets[Len(targets)] \in {<<"/dev/stderr">>, <<"&", "2">>}
                        THEN "err" ELSE "file"
                   ELSE IF piped THEN "pipe" ELSE "out"
        Emit(s, text) ==
            IF sink = "out" THEN [s EXCEPT !.out = @ \o text, !.status = 0]
            ELSE IF sink = "err" THEN [s EXCEPT !.err = @ \o text, !.status = 0]
            ELSE [s EXCEPT !.status = 0]
    IN  IF words = <<>> THEN [st EXCEPT !.status = 0]
        ELSE LET name == words[1]
                 st1  == [st EXCEPT !.ran = Append(@, name)]
             IN  CASE name = <<"cd">> ->
                        LET target == IF Len(words) >= 2
                                      THEN Resolve(st.dir, words[2]) ELSE HomeDir
                        IN  IF target \in Dirs
                            THEN [st1 EXCEPT !.dir = IF sub THEN @ ELSE target,
                                             !.status = 0]
                            ELSE [st1 EXCEPT !.err = @ \o CdError, !.status = 1]
                   [] name = <<"pwd">>  -> Emit(st1, st.dir \o <<"\n">>)
                   [] name = <<"echo">> -> Emit(st1, JoinWords(Tail(words)) \o <<"\n">>)
                   [] name = <<"ls">>   -> Emit(st1, Listing(st.dir))
                   [] name = <<"exit">> ->
                        [st1 EXCEPT !.alive = IF sub THEN @ ELSE FALSE, !.status = 0]
                   [] name = <<"rm">>   ->
                        [st1 EXCEPT !.err = @ \o RmError, !.status = 1]
                   [] OTHER ->
                        [st1 EXCEPT !.err = @ \o NotFound, !.status = 127]

\* the simple commands of one line from the i-th on; skipped: the command
\* before was not run
RECURSIVE ExecItems(_, _, _, _)
ExecItems(items, i, st, skipped) ==
    IF i > Len(items) \/ ~st.alive THEN st
    ELSE LET it     == items[i]
             prevOp == IF i = 1 THEN ";" ELSE items[i - 1].op
             sub    == it.op \in {"|", "&"} \/ prevOp = "|"
             run    == CASE prevOp = "&&" -> st.status = 0
                         [] prevOp = "||" -> st.status # 0
                         [] prevOp = "|"  -> ~skipped
                         [] OTHER         -> TRUE
         IN  IF Strip(it.cmd) = <<>> THEN ExecItems(items, i + 1, st, FALSE)
             ELSE IF ~run THEN ExecItems(items, i + 1, st, TRUE)
             ELSE ExecItems(items, i + 1,
                            RunSimple(it.cmd, st, sub, it.op = "|"), FALSE)

\* bash accepts the line: no command is missing around an operator (a line
\* may end after ; or &) and every redirection has a target
LineOK(items) ==
    \A i \in 1..Len(items) :
        \/ Strip(items[i].cmd) # <<>> /\ RedirOK(items[i].cmd)
        \/ /\ Strip(items[i].cmd) = <<>>
           /\ i = Len(items) /\ i > 1
           /\ items[i - 1].op \in {";", "&"}

\* bash reads and runs the text command by command: a line with a syntax
\* error ends the shell, the lines before it have run
RECURSIVE RunLines(_, _)
RunLines(lines, st) ==
    IF lines = <<>> \/ ~st.alive THEN st
    ELSE IF Strip(Head(lines)) = <<>> THEN RunLines(Tail(lines), st)
    ELSE LET items == LexLine(Head(lines), <<>>) IN
         IF ~LineOK(items)
         THEN [st EXCEPT !.err = @ \o SyntaxError, !.alive = FALSE, !.status = 2]
         ELSE RunLines(Tail(lines), ExecItems(items, 1, st, FALSE))

\* /bin/bash -c text, started in dir
Bash(text, dir) == RunLines(JoinCont(SplitLines(text, <<>>)), ShellStart(dir))

(***************************************************************************)
(* Command lists (src/lib/bash_tool.py); a name is a string, the lists     *)
(* are only tested for membership                                          *)
(***************************************************************************)
LIST_OF_ALLOWED_COMMANDS ==
    { <<w>> : w \in
      {"ls", "cd", "pwd", "find", "tree",
       "cat", "head", "tail", "less", "more", "wc",
       "grep", "awk", "sed", "sort", "uniq", "cut", "tr",
       "touch", "mkdir", "cp", "echo",
       "df", "du", "free", "uname", "whoami", "date", "hostname",
       "ps", "top", "htop",
       "ping", "curl", "wget", "ifconfig", "ip",
       "tar", "zip", "unzip", "gzip", "gunzip",
       "which", "whereis", "file", "stat", "basename", "dirname"} }

LIST_OF_AUTO_EXECUTE_COMMANDS ==
    { <<w>> : w \in
      {"ls", "pwd", "whoami", "date", "hostname", "uname",
       "df", "free", "ps",
       "which", "whereis", "file", "stat", "basename", "dirname",
       "echo", "cat", "head", "tail", "wc",
       "tree", "find",
       "cd",
       "wget"} }

\* an optional argument: None, or Some(v)
None == <<>>
Some(v) == <<v>>

(***************************************************************************)
(* subprocess.run(wrapped, shell=True, cwd=self.cwd, ...)                  *)
(***************************************************************************)
SENTINEL == "__END__"

RootDir == <<"/">>

\* what the call meets outside the program: a failure to start the child,
\* and the directory of the agent's own process, from which a relative cwd
\* is looked up
Envs == [fail : {"", "EAGAIN"}, procDir : {HomeDir, RootDir}]

ENOENT == <<"[Errno2]No-such-file-or-directory">>
EAGAIN == <<"[Errno11]Resource-temporarily-unavailable">>

\* the directory the child starts in, NoDir when there is none
ChildDir(dir, env) == IF dir \in Dirs THEN dir ELSE Resolve(env.procDir, dir)

\* str(e) of the exception subprocess.run raises, <<>> when it returns
SpawnException(dir, env) ==
    IF env.fail = "EAGAIN" THEN EAGAIN
    ELSE IF ChildDir(dir, env) = NoDir THEN ENOENT
    ELSE <<>>

\* str.split(SENTINEL); cur is the piece being read
RECURSIVE PySplit(_, _)
PySplit(s, cur) ==
    IF s = <<>> THEN <<cur>>
    ELSE IF Head(s) = SENTINEL THEN <<cur>> \o PySplit(Tail(s), <<>>)
    ELSE PySplit(Tail(s), Append(cur, Head(s)))

(***************************************************************************)
(* Bash._run_bash_command                                                  *)
(***************************************************************************)
PLACEHOLDER == <<"Command executed successfully, without any output">>

\* a wrapper that hands the shell the redirection-stripped text
Wrapped_Sanitized(cmd) ==
    Strip(ReSubRedirect(cmd)) \o <<";", "echo", " ", SENTINEL, ";", "pwd">>

\* wrapped = f"{cmd};echo __END__;pwd"
Wrapped(cmd) == cmd \o <<";", "echo", " ", SENTINEL, ";", "pwd">>

\* an except branch that drops the exception text
ExceptResult_NoText(e, self_cwd) == [stdout |-> <<>>, stderr |-> <<>>, cwd |-> self_cwd]

\* the except branch: what is returned for the exception text e
ExceptResult(e, self_cwd) == [stdout |-> <<>>, stderr |-> e, cwd |-> self_cwd]

\* the try branch after subprocess.run has returned with the shell state sh
TryResult(sh) ==
    LET stderr  == sh.err
        split   == PySplit(sh.out, <<>>)
        stdout0 == Strip(split[1])
        stdout  == IF stdout0 = <<>> /\ stderr = <<>> THEN PLACEHOLDER ELSE stdout0
        new_cwd == Strip(split[Len(split)])
    IN  [stdout |-> stdout, stderr |-> stderr, cwd |-> new_cwd]

NoShell == [alive |-> FALSE]

\* the outcome of a call: the value returned, self.cwd after it, the shell
\* invocations made, the final state of the shell if one ran, and whether
\* subprocess.run raised
_run_bash_command(cmd, self_cwd, env) ==
    LET wrapped == Wrapped(cmd)
        invoked == <<[text |-> wrapped, dir |-> self_cwd]>>
        e       == SpawnException(self_cwd, env)
    IN  IF e # <<>>
        THEN [result |-> ExceptResult(e, self_cwd), cwd |-> self_cwd,
              invoked |-> invoked, shell |-> NoShell, raised |-> TRUE]
        ELSE LET sh == Bash(wrapped, ChildDir(self_cwd, env))
                 r  == TryResult(sh)
             IN  [result |-> r, cwd |-> r.cwd,
                  invoked |-> invoked, shell |-> sh, raised |-> FALSE]

(***************************************************************************)
(* Bash.exec_bash_command, Bash.is_auto_executable                         *)
(***************************************************************************)
\* a rejection that forgets the directory
Rejected_ClearsCwd(msg, self_cwd) ==
    [result |-> [error |-> msg], cwd |-> <<>>,
     invoked |-> <<>>, shell |-> NoShell, raised |-> FALSE]

\* a rejection that also carries the output keys
Rejected_WithOutput(msg, self_cwd) ==
    [result |-> [error |-> msg, stdout |-> <<>>, stderr |-> <<>>, cwd |-> self_cwd],
     cwd |-> self_cwd, invoked |-> <<>>, shell |-> NoShell, raised |-> FALSE]

\* the two early returns of exec_bash_command
Rejected(msg, self_cwd) ==
    [result |-> [error |-> msg], cwd |-> self_cwd,
     invoked |-> <<>>, shell |-> NoShell, raised |-> FALSE]

\* a gate that fails closed: it wants at least one name
AllAllowed_NonEmpty(names, allowed_commands) ==
    /\ names # <<>>
    /\ \A i \in 1..Len(names) : names[i] \in allowed_commands

\* a gate that looks at the first extracted name only
AllAllowed_FirstOnly(names, allowed_commands) ==
    names = <<>> \/ names[1] \in allowed_commands

\* the loop over the extracted names finds none outside the allowlist
AllAllowed(names, allowed_commands) ==
    \A i \in 1..Len(names) : names[i] \in allowed_commands

exec_bash_command(cmd, self_cwd, allowed_commands, env) ==
    IF cmd = <<>> THEN Rejected("No command was provided", self_cwd)
    ELSE IF ~AllAllowed(_extract_commands(cmd), allowed_commands)
         THEN Rejected("Parts of this command were not in the allowlist", self_cwd)
    ELSE _run_bash_command(cmd, self_cwd, env)

\* an approval that asks for one auto-executable name instead of all
is_auto_executable_Any(cmd, auto_execute_commands) ==
    LET commands == _extract_commands(cmd) IN
    \E i \in 1..Len(commands) : commands[i] \in auto_execute_commands

is_auto_executable(cmd, auto_execute_commands) ==
    LET commands == _extract_commands(cmd) IN
    \A i \in 1..Len(commands) : commands[i] \in auto_execute_commands

(***************************************************************************)
(* The session: one Bash object and the calls made on it                   *)
(***************************************************************************)
VARIABLES
    cwd,                     \* self.cwd
    _allowed_commands,       \* self._allowed_commands
    _auto_execute_commands,  \* self._auto_execute_commands
    auto_arg,                \* the auto_execute_commands argument of __init__
    last,                    \* the most recent call and what it did
    reported,                \* the directory the appended pwd printed last
    calls                    \* number of calls made

vars == <<cwd, _allowed_commands, _auto_execute_commands, auto_arg, last,
          reported, calls>>

\* the command lines submitted
SimpleFirst  == {<<"ls">>, <<"cd", " ", "sub">>}
SimpleSecond == {<<"rm">>, <<"pwd">>, <<"exit">>}
Operators    == {<<";">>, <<"\n">>, <<"|">>, <<"&", "&">>, <<"|", "|">>}

Lines ==
    {<<>>, <<" ">>, <<" ", "\n">>, <<"ls", " ", ";">>, <<"ls", "\n">>,
     <<">", " ", "f">>, <<"echo", " ", ">", " ", "/dev/stderr">>,
     <<"echo", " ", "hi">>, <<"cd", " ", "/home">>,
     <<"echo", " ", "__END__">>, <<";", " ", "|">>}
    \cup SimpleFirst \cup SimpleSecond
    \cup {a \o op \o b : a \in SimpleFirst, op \in Operators, b \in SimpleSecond}

\* the sessions built: Bash(cwd, allowed_commands, auto_execute_commands)
Sessions ==
    { [allowed |-> LIST_OF_ALLOWED_COMMANDS, auto |-> None],
      [allowed |-> LIST_OF_ALLOWED_COMMANDS, auto |-> Some(LIST_OF_AUTO_EXECUTE_COMMANDS)],
      [allowed |-> LIST_OF_ALLOWED_COMMANDS, auto |-> Some({<<"ls">>, <<"rm">>})],
      [allowed |-> {<<"ls">>, <<"cd">>},     auto |-> Some(LIST_OF_AUTO_EXECUTE_COMMANDS)] }

\* Bash.__init__ with cwd = str(Path.home())
Init ==
    \E s \in Sessions :
        /\ cwd = HomeDir
        /\ _allowed_commands = s.allowed
        /\ _auto_execute_commands = IF s.auto = None THEN {} ELSE s.auto[1]
        /\ auto_arg = s.auto
        /\ last = [op |-> "init", cmd |-> <<>>, ret |-> None, cwdBefore |-> HomeDir,
                   invoked |-> <<>>, shell |-> NoShell, raised |-> FALSE]
        /\ reported = HomeDir
        /\ calls = 0

ExecBashCommand(cmd, env) ==
    /\ calls < MaxCalls
    /\ \E o \in {exec_bash_command(cmd, cwd, _allowed_commands, env)} :
        /\ cwd' = o.cwd
        /\ last' = [op |-> "exec", cmd |-> cmd, ret |-> o.result, cwdBefore |-> cwd,
                    invoked |-> o.invoked, shell |-> o.shell, raised |-> o.raised]
        /\ reported' = IF o.shell.alive THEN o.shell.dir ELSE reported
    /\ calls' = calls + 1
    /\ UNCHANGED <<_allowed_commands, _auto_execute_commands, auto_arg>>

IsAutoExecutable(cmd) ==
    /\ calls < MaxCalls
    /\ last' = [op |-> "auto", cmd |-> cmd,
                ret |-> is_auto_executable(cmd, _auto_execute_commands),
                cwdBefore |-> cwd, invoked |-> <<>>, shell |-> NoShell,
                raised |-> FALSE]
    /\ calls' = calls + 1
    /\ UNCHANGED <<cwd, _allowed_commands, _auto_execute_commands, auto_arg, reported>>

(***************************************************************************)
(* Bash.to_json_schema and a direct use of the extractor                   *)
(***************************************************************************)
to_json_schema ==
    [type |-> "function", name |-> "exec_bash_command",
     properties |-> {"cmd"}, required |-> <<"cmd">>]

ToJsonSchema ==
    /\ calls < MaxCalls
    /\ last' = [op |-> "schema", cmd |-> <<>>, ret |-> to_json_schema,
                cwdBefore |-> cwd, invoked |-> <<>>, shell |-> NoShell,
                raised |-> FALSE]
    /\ calls' = calls + 1
    /\ UNCHANGED <<cwd, _allowed_commands, _auto_execute_commands, auto_arg, reported>>

ExtractCommands(cmd) ==
    /\ calls < MaxCalls
    /\ last' = [op |-> "extract", cmd |-> cmd, ret |-> _extract_commands(cmd),
                cwdBefore |-> cwd, invoked |-> <<>>, shell |-> NoShell,
                raised |-> FALSE]
    /\ calls' = calls + 1
    /\ UNCHANGED <<cwd, _allowed_commands, _auto_execute_commands, auto_arg, reported>>

(***************************************************************************)
(* The tool-call loop of main (src/agent.py): one tool call of the model   *)
(***************************************************************************)
\* tc.function.name
ToolNames == {"exec_bash_command", "run_python"}

\* the lines the model asks for
ToolLines == {<<"cd", " ", "sub">>, <<"rm">>, <<" ">>}

\* tc.function.arguments after json.loads: text that is not JSON, JSON that
\* is not an object (a number), an object without cmd, an object with cmd
ToolArguments ==
    {[kind |-> "invalid", cmd |-> None], [kind |-> "number", cmd |-> None],
     [kind |-> "object", cmd |-> None]}
    \cup {[kind |-> "object", cmd |-> Some(l)] : l \in ToolLines}

\* the Bash object as a tool call leaves it when the core is not called
NotCalled(self_cwd) ==
    [result |-> None, cwd |-> self_cwd, invoked |-> <<>>, shell |-> NoShell,
     raised |-> FALSE]

\* tool_call_result = {"error": msg}; messages.add_tool_message(...)
Refused(msg, self_cwd) ==
    [message |-> Some([error |-> msg]), reached |-> FALSE, unwound |-> FALSE,
     core |-> NotCalled(self_cwd)]

\* the body of the loop over tool_calls: the tool message added (None when
\* none is), whether exec_bash_command was called, whether an exception left
\* the loop for the handler of main, and what the call did to the Bash object
tool_call(function_name, arguments, confirm, self_cwd, allowed_commands, env) ==
    IF arguments.kind = "invalid"
    THEN Refused("Failed to parse function arguments", self_cwd)
    ELSE IF function_name # "exec_bash_command"
    THEN Refused("Incorrect tool or function argument", self_cwd)
    ELSE IF arguments.kind = "number"
    THEN [message |-> None, reached |-> FALSE, unwound |-> TRUE,
          core |-> NotCalled(self_cwd)]
    ELSE IF arguments.cmd = None
    THEN Refused("Incorrect tool or function argument", self_cwd)
    ELSE IF confirm
    THEN LET o == exec_bash_command(arguments.cmd[1], self_cwd, allowed_commands, env)
         IN  [message |-> Some(o.result), reached |-> TRUE, unwound |-> FALSE,
              core |-> o]
    ELSE Refused("The user declined the execution of this command.", self_cwd)

ProcessToolCall(function_name, arguments, confirm, env) ==
    /\ calls < MaxCalls
    /\ \E t \in {tool_call(function_name, arguments, confirm, cwd,
                           _allowed_commands, env)} :
        /\ cwd' = t.core.cwd
        /\ last' = [op |-> "tool", cmd |-> arguments.cmd, name |-> function_name,
                    kind |-> arguments.kind, confirm |-> confirm,
                    ret |-> t.message, reached |-> t.reached, unwound |-> t.unwound,
                    cwdBefore |-> cwd, invoked |-> t.core.invoked,
                    shell |-> t.core.shell, raised |-> t.core.raised]
        /\ reported' = IF t.core.shell.alive THEN t.core.shell.dir ELSE reported
    /\ calls' = calls + 1
    /\ UNCHANGED <<_allowed_commands, _auto_execute_commands, auto_arg>>

Next ==
    \/ \E cmd \in Lines, env \in Envs : ExecBashCommand(cmd, env)
    \/ \E cmd \in Lines : IsAutoExecutable(cmd)
    \/ ToJsonSchema
    \/ \E cmd \in Lines : ExtractCommands(cmd)
    \/ \E n \in ToolNames, a \in ToolArguments, c \in BOOLEAN, env \in Envs :
           ProcessToolCall(n, a, c, env)

Spec == Init /\ [][Next]_vars

(***************************************************************************)
(* Properties                                                              *)
(***************************************************************************)
Range(f) == {f[i] : i \in DOMAIN f}

IsError(r) == DOMAIN r = {"error"}

\* the names extracted from the line of the last call
LastNames == _extract_commands(last.cmd)

\* the last call was exec_bash_command and the shell was started and returned
ShellRan == last.op = "exec" /\ last.invoked # <<>> /\ ~last.raised

\* the program names the shell ran for the caller's line, without the
\* echo and pwd of the trailer (which ran iff the shell read to the end)
UserRan ==
    IF last.shell.alive
    THEN SubSeq(last.shell.ran, 1, Len(last.shell.ran) - 2)
    ELSE last.shell.ran

\* C1: a line with an extracted name outside the allowlist is answered with
\* an error, the shell is not invoked for it, and cwd and the lists are as
\* before the call, so that a second submission of the line finds the session
\* as the first one did.
C1_DisallowedRejected ==
    (last.op = "exec" /\ \E n \in Range(LastNames) : n \notin _allowed_commands)
    => /\ IsError(last.ret)
       /\ last.invoked = <<>>
       /\ cwd = last.cwdBefore

\* a non-initial cwd survives the rejection of a line whose first name is allowed
C1_Witness ==
    /\ last.op = "exec"
    /\ Len(LastNames) = 2
    /\ LastNames[1] \in _allowed_commands
    /\ LastNames[2] \notin _allowed_commands
    /\ IsError(last.ret)
    /\ cwd = SubDir

\* C2: an empty or whitespace-only line is answered with "No command was
\* provided", no shell is invoked and cwd is unchanged.
C2_BlankIsEmptyCommand ==
    (last.op = "exec" /\ Strip(last.cmd) = <<>>)
    => /\ last.ret = [error |-> "No command was provided"]
       /\ last.invoked = <<>>
       /\ cwd = last.cwdBefore

\* C3: cwd is the initial directory or the directory the appended pwd of the
\* most recent completed execution printed, and it is never empty.
C3_CwdIsReported ==
    /\ cwd \in {HomeDir, reported}
    /\ cwd # <<>>

\* C4: when subprocess.run raises, the call returns stdout empty, stderr the
\* non-empty error text and the cwd of before the call, and cwd is unchanged.
C4_SpawnFailureAbsorbed ==
    (last.op = "exec" /\ last.raised)
    => /\ DOMAIN last.ret = {"stdout", "stderr", "cwd"}
       /\ last.ret.stdout = <<>>
       /\ last.ret.stderr # <<>>
       /\ last.ret.cwd = last.cwdBefore
       /\ cwd = last.cwdBefore

\* the spawn fails in a session that had moved to the subdirectory
C4_Witness ==
    /\ last.op = "exec" /\ last.raised
    /\ last.cwdBefore = SubDir
    /\ last.ret.stderr = EAGAIN

\* C5: the shell runs no program outside the allowlist for an accepted line,
\* whatever operator or newline the program stands behind.
C5_OnlyAllowedRun ==
    ShellRan => \A n \in Range(UserRan) : n \in _allowed_commands

\* C6: an executed command never returns an empty stdout together with a
\* stderr that is empty after trimming; it returns the placeholder then.
C6_NeverBothEmpty ==
    ShellRan =>
        /\ ~(last.ret.stdout = <<>> /\ Strip(last.ret.stderr) = <<>>)
        /\ (Strip(PySplit(last.shell.out, <<>>)[1]) = <<>> /\ Strip(last.shell.err) = <<>>)
               => last.ret.stdout = PLACEHOLDER

\* the list the session approves from: the constructor's argument, or
\* nothing when none was given
AutoList == IF auto_arg = None THEN {} ELSE auto_arg[1]

\* C7: is_auto_executable answers true exactly when every extracted name is
\* in the auto-approve list (so for an empty extraction always, and in a
\* session built without a list for an empty extraction only), whatever the
\* allowlist holds.
C7_AutoIffAllInList ==
    last.op = "auto" =>
        /\ last.ret = (Range(LastNames) \subseteq AutoList)
        /\ (LastNames = <<>> => last.ret)
        /\ (auto_arg = None /\ last.ret => LastNames = <<>>)

\* approved although a name of the line is outside the allowlist
C7_Witness ==
    /\ last.op = "auto" /\ last.ret
    /\ Len(LastNames) = 2
    /\ \E n \in Range(LastNames) : n \notin _allowed_commands

\* C8: a name of the auto-approve list that is not in the allowlist never
\* runs: a line whose extraction holds such a name is rejected without a
\* shell, and the shell runs no such name for any line.
C8_AutoNeverBypasses ==
    /\ (last.op = "exec"
        /\ \E n \in Range(LastNames) : n \in AutoList /\ n \notin _allowed_commands)
       => IsError(last.ret) /\ last.invoked = <<>>
    /\ ShellRan =>
           \A n \in Range(UserRan) : ~(n \in AutoList /\ n \notin _allowed_commands)

\* the fixed trailer
Trailer == <<";", "echo", " ", "__END__", ";", "pwd">>

\* the line of the last call passes the gate
Accepted ==
    /\ last.op = "exec"
    /\ last.cmd # <<>>
    /\ \A n \in Range(LastNames) : n \in _allowed_commands

\* C9: an accepted line makes exactly one shell invocation, of the raw line
\* followed by the trailer and nothing else, started in the cwd of the call.
C9_RawTextOneInvocation ==
    Accepted =>
        /\ Len(last.invoked) = 1
        /\ last.invoked[1].text = last.cmd \o Trailer
        /\ last.invoked[1].dir = last.cwdBefore

\* a line with a redirection is handed over as written, from the subdirectory
C9_Witness ==
    /\ Accepted
    /\ ReSubRedirect(last.cmd) # last.cmd
    /\ last.cwdBefore = SubDir
    /\ ~last.raised

\* the last call was rejected, or failed: the shell could not be started or
\* did not read the line to its end
RejectedOrFailed ==
    /\ last.op = "exec"
    /\ IsError(last.ret) \/ last.raised \/ ~last.shell.alive

\* C10: a completed execution leaves cwd at the directory the shell ended
\* in, every execution starts in cwd, pwd returns cwd as its stdout, and a
\* rejected or failed call leaves cwd unchanged.
C10_DirectoryPersists ==
    /\ (ShellRan /\ last.shell.alive) => cwd = last.shell.dir
    /\ ShellRan => last.invoked[1].dir = last.cwdBefore
    /\ (ShellRan /\ last.shell.alive /\ last.cmd = <<"pwd">>)
           => last.ret.stdout = last.cwdBefore
    /\ RejectedOrFailed => cwd = last.cwdBefore

\* C11: every call of exec_bash_command returns a record with exactly the
\* keys stdout, stderr, cwd or a record with exactly the key error, also
\* when the shell could not be started or did not read the line to its end.
C11_OneShape ==
    last.op = "exec" =>
        \/ DOMAIN last.ret = {"stdout", "stderr", "cwd"}
        \/ DOMAIN last.ret = {"error"}

\* the shell stopped at a syntax error and the call still returns the
\* output shape
C11_Witness ==
    /\ ShellRan /\ ~last.shell.alive
    /\ last.shell.status = 2
    /\ DOMAIN last.ret = {"stdout", "stderr", "cwd"}

\* C12: a tool call the loop does not pass on to exec_bash_command (declined,
\* arguments that are not JSON, wrong tool name, no cmd argument) invokes no
\* shell, leaves cwd unchanged and is answered with an error record.
C12_RefusedToolCall ==
    (last.op = "tool" /\ ~last.reached)
    => /\ last.invoked = <<>>
       /\ cwd = last.cwdBefore
       /\ last.ret # None
       /\ IsError(last.ret[1])

\* what the caller's line itself wrote to stdout in a completed execution:
\* the captured stream without the sentinel line and the pwd line of the trailer
OwnOutput ==
    SubSeq(last.shell.out, 1, Len(last.shell.out) - Len(last.shell.dir) - 3)

\* C13: a completed execution returns as stdout the whole own output of the
\* line with only trailing whitespace removed (the placeholder when that is
\* empty and stderr is too), also when the output holds the sentinel, and
\* as cwd the trimmed text of the appended pwd.
C13_OutputAndDirectory ==
    (ShellRan /\ last.shell.alive) =>
        /\ \/ last.ret.stdout = RStrip(OwnOutput)
           \/ /\ RStrip(OwnOutput) = <<>> /\ last.ret.stderr = <<>>
              /\ last.ret.stdout = PLACEHOLDER
        /\ last.ret.cwd = Strip(last.shell.dir)

(***************************************************************************)
(* The extractor on its own: every text of up to MaxLen units, and the     *)
(* lines the documentation gives as examples                               *)
(***************************************************************************)
Alphabet == {"ls", "rm", " ", "|", ";", "&", ">", "$", "(", BACKTICK}

Texts(n) == UNION {[1..k -> Alphabet] : k \in 0..n}

\* ls -la | grep foo && echo done; rm -rf /
ExamplePipeline ==
    <<"ls", " ", "-la", " ", "|", " ", "grep", " ", "foo", " ", "&", "&", " ",
      "echo", " ", "done", ";", " ", "rm", " ", "-rf", " ", "/">>

\* echo hi > out.txt
ExampleRedirect == <<"echo", " ", "hi", " ", ">", " ", "out.txt">>

\* ls 2>&1
ExampleDescriptor == <<"ls", " ", "2", ">", "&", "1">>

ExampleLines ==
    {ExamplePipeline, ExampleRedirect, ExampleDescriptor, <<" ", " ", " ">>,
     <<">", " ", "file.txt">>}

ExtractInputs == Texts(MaxLen) \cup ExampleLines

InitExtract ==
    \E s \in ExtractInputs :
        /\ cwd = HomeDir
        /\ _allowed_commands = LIST_OF_ALLOWED_COMMANDS
        /\ _auto_execute_commands = {}
        /\ auto_arg = None
        /\ last = [op |-> "input", cmd |-> s, ret |-> None, cwdBefore |-> HomeDir,
                   invoked |-> <<>>, shell |-> NoShell, raised |-> FALSE]
        /\ reported = HomeDir
        /\ calls = 0

NextExtract == last.op = "input" /\ ExtractCommands(last.cmd)

SpecExtract == InitExtract /\ [][NextExtract]_vars

\* the i-th unit of s belongs to a separator: | ; & backtick, or the $ or
\* the ( of a $(
IsSepAt(s, i) ==
    \/ s[i] \in {"|", ";", "&", BACKTICK}
    \/ s[i] = "$" /\ i < Len(s) /\ s[i + 1] = "("
    \/ s[i] = "(" /\ i > 1 /\ s[i - 1] = "$"

\* where the fragments between the separators begin, and the fragment that
\* begins at i
FragmentStarts(s) ==
    {i \in 1..Len(s) : ~IsSepAt(s, i) /\ (i = 1 \/ IsSepAt(s, i - 1))}

Fragment(s, i) ==
    LET j == CHOOSE j \in i..Len(s) :
                 /\ \A k \in i..j : ~IsSepAt(s, k)
                 /\ (j = Len(s) \/ IsSepAt(s, j + 1))
    IN  SubSeq(s, i, j)

\* the first whitespace-delimited token of a text
FirstWord(t0) ==
    LET t == Strip(t0)
        k == CHOOSE k \in 0..Len(t) :
                 /\ \A j \in 1..k : t[j] \notin WS
                 /\ (k = Len(t) \/ t[k + 1] \in WS)
    IN  SubSeq(t, 1, k)

\* the members of a set of numbers in increasing order
RECURSIVE Ascending(_)
Ascending(S) ==
    IF S = {} THEN <<>>
    ELSE LET m == CHOOSE m \in S : \A x \in S : m <= x
         IN  <<m>> \o Ascending(S \ {m})

\* the first token of every fragment that is not empty once cleaned, in the
\* order of the fragments
TokensOfFragments(s, Clean(_)) ==
    LET starts == Ascending({i \in FragmentStarts(s) : Clean(Fragment(s, i)) # <<>>})
    IN  [n \in 1..Len(starts) |-> FirstWord(Clean(Fragment(s, starts[n])))]

Trimmed(f) == Strip(f)

WithoutRedirections(f) == Strip(ReSubRedirect(Strip(f)))

\* C14 as stated: the extraction is the first token of every fragment that
\* is not empty after trimming, in order, one per such fragment.
C14_SplitTrimFirstToken ==
    last.op = "extract" => last.ret = TokensOfFragments(last.cmd, Trimmed)

\* C14 as amended: the extraction is the first token of what is left of
\* every fragment once its output redirections are removed, in the order of
\* the fragments, one per fragment that is not empty then, duplicates kept;
\* the documented pipeline gives ls, grep, echo, rm.
C14_SplitCleanFirstToken ==
    last.op = "extract" =>
        /\ last.ret = TokensOfFragments(last.cmd, WithoutRedirections)
        /\ last.cmd = ExamplePipeline
               => last.ret = << <<"ls">>, <<"grep">>, <<"echo">>, <<"rm">> >>

\* a name is reported twice, once for each of two fragments
C14_Witness ==
    /\ last.op = "extract"
    /\ Len(last.ret) = 2
    /\ last.ret[1] = last.ret[2]
    /\ "&" \in Range(last.cmd)

\* the text is one simple command of the shell with an output redirection:
\* no operator, no command substitution, every > with its target
OneCommandWithRedirection(s) ==
    /\ ">" \in Range(s)
    /\ Range(s) \cap {"\n", "$", "(", BACKTICK} = {}
    /\ Len(LexLine(s, <<>>)) = 1
    /\ RedirOK(s)

\* the program the shell runs for a simple command: its first word that is
\* not part of a redirection, if it has one
ProgramOf(s) ==
    LET words == Words(DropRedirs(s)) IN
    IF words = <<>> THEN <<>> ELSE <<words[1]>>

\* C15: for a command with output redirections (> or >>, with or without
\* whitespace before the target, 2>&1 included) the extraction is the first
\* token that is not part of a redirection, and never a redirection target.
C15_TargetNeverReported ==
    (last.op = "extract" /\ OneCommandWithRedirection(last.cmd))
    => last.ret = ProgramOf(last.cmd)

\* a line of whitespace only, of separators (and whitespace) only, of one
\* redirection only
OnlyWhitespace(s) == \A i \in 1..Len(s) : s[i] \in WS

OnlySeparators(s) == \A i \in 1..Len(s) : IsSepAt(s, i) \/ s[i] \in WS

OnlyRedirection(s) ==
    LET t      == Strip(s)
        target == LStrip(Drop(t, Lead(t, {">"})))
    IN  /\ Lead(t, {">"}) >= 1
        /\ target # <<>>
        /\ \A i \in 1..Len(target) : target[i] \notin WS /\ ~IsSepAt(target, i)

\* C16: the empty line, a whitespace-only line, a line of separators and a
\* line that is one redirection extract to nothing, and exec_bash_command
\* hands every non-empty line that extracts to nothing to the shell.
C16_EmptyExtractionRuns ==
    /\ (last.op \in {"exec", "auto", "extract"}
        /\ (OnlyWhitespace(last.cmd) \/ OnlySeparators(last.cmd)
            \/ OnlyRedirection(last.cmd)))
       => LastNames = <<>>
    /\ (last.op = "exec" /\ last.cmd # <<>> /\ LastNames = <<>>)
       => /\ ~IsError(last.ret)
          /\ Len(last.invoked) = 1
          /\ last.invoked[1].text = last.cmd \o Trailer

\* a line that is only a redirection was run by the shell
C16_Witness ==
    /\ ShellRan
    /\ OnlyRedirection(last.cmd)
    /\ last.shell.alive

\* C17: cwd changes only in a call of exec_bash_command that started the
\* shell and got its output back (extraction, is_auto_executable,
\* to_json_schema, a rejected line and a failed spawn leave it), and the
\* two command lists never change.
C17_OnlyExecutionMovesCwd ==
    [][ /\ cwd' # cwd =>
              /\ last'.op \in {"exec", "tool"}
              /\ last'.invoked # <<>>
              /\ ~last'.raised
        /\ _allowed_commands' = _allowed_commands
        /\ _auto_execute_commands' = _auto_execute_commands ]_vars

\* an execution moved the session to the subdirectory
C17_Witness ==
    /\ last.op = "exec"
    /\ last.invoked # <<>> /\ ~last.raised
    /\ last.cwdBefore = HomeDir
    /\ cwd = SubDir

====
